---- MODULE Spec2Model ----
(***************************************************************************)
(* Model of the two slicer operators of this repository:                   *)
(*   src/Slicer.py          outline derived from the lowest slice          *)
(*                          (variant "Geometry")                           *)
(*   src/Blender/Slicer.py  bounding-box outline, configurable direction   *)
(*                          (variant "BoundingBox")                        *)
(*                                                                         *)
(* Lengths are integers in tenths of the operator's length unit, so the    *)
(* 0.1 clearance of src/Slicer.py:84 is 1.  Heights and points of one run  *)
(* are kept in "fine" units of 1/num_layers of a tenth, which makes        *)
(* z_min + i * (z_max - z_min) / num_layers an exact integer.  The float   *)
(* arithmetic of the program is modelled by exact arithmetic on that grid. *)
(***************************************************************************)
EXTENDS Integers, Sequences, FiniteSets, TLC

VARIABLES
    variant, obj, radial, selected, writable,
    num_layers, slice_direction, add_outline, outline_offset,
    pc, result, reports,
    z_min, z_max, layer_height, i, z_slice,
    outline_contour, files, handed, sliceLog, outlineCalls,
    z, intersecting_edges, intersections, contours, used_edges,
    k, contour, start_edge, current_edge, steps, ret, visits

config == <<variant, obj, radial, selected, writable,
            num_layers, slice_direction, add_outline, outline_offset>>
run    == <<result, reports, z_min, z_max, layer_height, i, z_slice,
            outline_contour, files, handed, sliceLog, outlineCalls>>
tracer == <<z, intersecting_edges, intersections, contours, used_edges,
            k, contour, start_edge, current_edge, steps, ret, visits>>
vars   == <<config, pc, run, tracer>>

(***************************************************************************)
(* Bounds of the model and constants of the program.                       *)
(***************************************************************************)
MaxLayers == 3      \* num_layers ranges over 1..MaxLayers
MaxOffset == 2      \* outline_offset ranges over 1..MaxOffset (tenths)
MaxPts    == 3      \* points per input list of the outline specification
Clearance == 1      \* the 0.1 added to the lowest vertex
MinContourPoints == 2   \* a contour is kept when len(contour) > 2

None == <<>>

(***************************************************************************)
(* Small helpers.                                                          *)
(***************************************************************************)
Abs(a) == IF a < 0 THEN -a ELSE a

\* floor division that also accepts a negative divisor
Div(a, b) == IF b > 0 THEN a \div b ELSE (-a) \div (-b)

SetMin(S) == CHOOSE a \in S : \A b \in S : a <= b
SetMax(S) == CHOOSE a \in S : \A b \in S : a >= b

Range(s) == {s[n] : n \in DOMAIN s}

\* the length of the planar vector (a, b) on the grid: the integer square
\* root of a * a + b * b, which is at most |a| + |b|
Length(a, b) ==
    CHOOSE r \in 0..(Abs(a) + Abs(b)) :
        r * r <= a * a + b * b /\ (r + 1) * (r + 1) > a * a + b * b

RECURSIVE Flatten(_)
Flatten(cs) == IF cs = <<>> THEN <<>> ELSE Head(cs) \o Flatten(Tail(cs))

(***************************************************************************)
(* Meshes.  A mesh is the BMesh the operator builds: verts (positions,     *)
(* identified by their index), edges (pairs of vertex indices, in          *)
(* bm.edges order) and faces (each the ordered list of its edges).         *)
(***************************************************************************)
Shift(m, dv, de) ==
    [verts |-> m.verts,
     edges |-> [n \in DOMAIN m.edges |-> <<m.edges[n][1] + dv, m.edges[n][2] + dv>>],
     faces |-> [f \in DOMAIN m.faces |-> [n \in DOMAIN m.faces[f] |-> m.faces[f][n] + de]],
     convex |-> m.convex]

Join(a, b) ==
    LET b2 == Shift(b, Len(a.verts), Len(a.edges))
    IN  [verts |-> a.verts \o b2.verts, edges |-> a.edges \o b2.edges,
         faces |-> a.faces \o b2.faces, convex |-> FALSE]

\* a unit cube (side 10 tenths) with quad faces, its base at height z0
Cube(z0) ==
    [verts |-> << <<0, 0, z0>>, <<10, 0, z0>>, <<10, 10, z0>>, <<0, 10, z0>>,
                  <<0, 0, z0 + 10>>, <<10, 0, z0 + 10>>, <<10, 10, z0 + 10>>,
                  <<0, 10, z0 + 10>> >>,
     edges |-> << <<1, 2>>, <<2, 3>>, <<3, 4>>, <<4, 1>>,
                  <<5, 6>>, <<6, 7>>, <<7, 8>>, <<8, 5>>,
                  <<1, 5>>, <<2, 6>>, <<3, 7>>, <<4, 8>> >>,
     faces |-> << <<1, 2, 3, 4>>, <<5, 6, 7, 8>>, <<1, 10, 5, 9>>,
                  <<2, 11, 6, 10>>, <<3, 12, 7, 11>>, <<4, 9, 8, 12>> >>,
     convex |-> TRUE]

\* the same cube with every face split into two triangles
TriCube ==
    [verts |-> Cube(0).verts,
     edges |-> Cube(0).edges \o << <<1, 3>>, <<5, 7>>, <<1, 6>>, <<2, 7>>,
                                   <<3, 8>>, <<4, 5>> >>,
     faces |-> << <<1, 2, 13>>, <<13, 3, 4>>, <<5, 6, 14>>, <<14, 7, 8>>,
                  <<1, 10, 15>>, <<15, 5, 9>>, <<2, 11, 16>>, <<16, 6, 10>>,
                  <<3, 12, 17>>, <<17, 7, 11>>, <<4, 9, 18>>, <<18, 8, 12>> >>,
     convex |-> TRUE]

Tetra ==
    [verts |-> << <<0, 0, 0>>, <<20, 0, 10>>, <<0, 20, 20>>, <<20, 20, 20>> >>,
     edges |-> << <<1, 2>>, <<1, 3>>, <<1, 4>>, <<2, 3>>, <<2, 4>>, <<3, 4>> >>,
     faces |-> << <<1, 4, 2>>, <<1, 5, 3>>, <<2, 6, 3>>, <<4, 6, 5>> >>,
     convex |-> TRUE]

Octahedron ==
    [verts |-> << <<10, 0, 0>>, <<0, 10, 0>>, <<-10, 0, 0>>, <<0, -10, 0>>,
                  <<0, 0, 10>>, <<0, 0, -10>> >>,
     edges |-> << <<1, 2>>, <<2, 3>>, <<3, 4>>, <<4, 1>>,
                  <<1, 5>>, <<2, 5>>, <<3, 5>>, <<4, 5>>,
                  <<1, 6>>, <<2, 6>>, <<3, 6>>, <<4, 6>> >>,
     faces |-> << <<1, 6, 5>>, <<2, 7, 6>>, <<3, 8, 7>>, <<4, 5, 8>>,
                  <<1, 10, 9>>, <<2, 11, 10>>, <<3, 12, 11>>, <<4, 9, 12>> >>,
     convex |-> TRUE]

\* three triangles around one edge: a non-manifold edge with three faces and
\* boundary edges with one face
Fin ==
    [verts |-> << <<0, 0, 0>>, <<0, 0, 20>>, <<10, 0, 10>>, <<0, 10, 10>>,
                  <<-10, -10, 10>> >>,
     edges |-> << <<1, 2>>, <<1, 3>>, <<2, 3>>, <<1, 4>>, <<2, 4>>,
                  <<1, 5>>, <<2, 5>> >>,
     faces |-> << <<1, 3, 2>>, <<1, 5, 4>>, <<1, 7, 6>> >>,
     convex |-> FALSE]

\* vertices and edges but no face
Wire ==
    [verts |-> << <<0, 0, 0>>, <<10, 0, 10>>, <<0, 10, 10>> >>,
     edges |-> << <<1, 2>>, <<2, 3>>, <<3, 1>> >>,
     faces |-> <<>>,
     convex |-> FALSE]

Empty == [verts |-> <<>>, edges |-> <<>>, faces |-> <<>>, convex |-> FALSE]

\* two unit cubes stacked with a gap: one on 0..10, the other on 20..30
Stacked == Join(Cube(0), Cube(20))

MeshNames == {"Cube", "TriCube", "Tetra", "Octahedron", "Stacked", "Fin", "Wire", "Empty"}

Mesh(name) ==
    CASE name = "Cube"       -> Cube(0)
      [] name = "TriCube"    -> TriCube
      [] name = "Tetra"      -> Tetra
      [] name = "Octahedron" -> Octahedron
      [] name = "Stacked"    -> Stacked
      [] name = "Fin"        -> Fin
      [] name = "Wire"       -> Wire
      [] OTHER               -> Empty

VertZ(m) == {m.verts[n][3] : n \in DOMAIN m.verts}

\* obj.bound_box in world space (matrix_world is the identity here); the host
\* gives a mesh without vertices the box -1 .. 1 (-10 .. 10 tenths)
BoundBoxZ(m) ==
    IF m.verts = <<>> THEN <<-10, 10>> ELSE <<SetMin(VertZ(m)), SetMax(VertZ(m))>>

Reverse(s) == [n \in DOMAIN s |-> s[Len(s) + 1 - n]]

\* edge.link_faces: the faces an edge borders, in the order of the radial
\* cycle of the edge, which the construction of the mesh fixes
LinkFaces(m, e) ==
    LET lf == SelectSeq([f \in DOMAIN m.faces |-> f],
                        LAMBDA f : \E n \in DOMAIN m.faces[f] : m.faces[f][n] = e)
    IN  IF radial = "forward" THEN lf ELSE Reverse(lf)


(***************************************************************************)
(* slice_at_z: the plane intersector.  zf is the height in fine units and  *)
(* S the number of fine units per tenth (num_layers).                      *)
(***************************************************************************)
NoEdge == 0     \* next_edge = None

VertexZ(m, v, S) == m.verts[v][3] * S

\* mutant: an edge that only touches the plane is not a crossing edge
CrossesStrictly(m, e, zf, S) ==
    (VertexZ(m, m.edges[e][1], S) - zf) * (VertexZ(m, m.edges[e][2], S) - zf) < 0

\* (e.verts[0].co.z - z) * (e.verts[1].co.z - z) <= 0
Crosses(m, e, zf, S) ==
    (VertexZ(m, m.edges[e][1], S) - zf) * (VertexZ(m, m.edges[e][2], S) - zf) <= 0

IntersectingEdges(m, zf, S) ==
    SelectSeq([e \in DOMAIN m.edges |-> e], LAMBDA e : Crosses(m, e, zf, S))

\* mathutils.geometry.intersect_line_plane against the plane z = zf with
\* normal (0, 0, 1): None when the line is parallel to the plane, else
\* v1 + t * (v2 - v1) with t chosen so that the z of the point is zf
intersect_line_plane(v1, v2, zf, S) ==
    IF v2[3] = v1[3] THEN None
    ELSE << v1[1] * S + Div((zf - v1[3] * S) * (v2[1] - v1[1]), v2[3] - v1[3]),
            v1[2] * S + Div((zf - v1[3] * S) * (v2[2] - v1[2]), v2[3] - v1[3]),
            zf >>

EdgePoint(m, e, zf, S) ==
    intersect_line_plane(m.verts[m.edges[e][1]], m.verts[m.edges[e][2]], zf, S)

\* the dict intersections: key (verts[0].index, verts[1].index) -> point, with
\* an entry only where intersect_line_plane gave a point
Intersections(m, ie, zf, S) ==
    [key \in {m.edges[e] : e \in {e \in Range(ie) : EdgePoint(m, e, zf, S) # None}}
        |-> intersect_line_plane(m.verts[key[1]], m.verts[key[2]], zf, S)]

Get(d, key) == IF key \in DOMAIN d THEN d[key] ELSE None

\* intersections.get(key) or intersections.get(rev_key)
PointOf(m, e, d) ==
    LET key     == m.edges[e]
        rev_key == <<m.edges[e][2], m.edges[e][1]>>
    IN  IF Get(d, key) # None THEN Get(d, key) ELSE Get(d, rev_key)

\* mutant: only the first face of the current edge is searched
NextEdgeFirstFace(m, cur, ie, used) ==
    LET lf == LinkFaces(m, cur)
        cands == IF lf = <<>> THEN <<>>
                 ELSE SelectSeq(m.faces[lf[1]],
                                LAMBDA fe : /\ fe # cur
                                            /\ fe \in Range(ie)
                                            /\ fe \notin used)
    IN  IF cands = <<>> THEN NoEdge ELSE Head(cands)

\* mutant: edges already used are candidates again
NextEdgeIgnoringUsed(m, cur, ie, used) ==
    LET lf == LinkFaces(m, cur)
        cands == Flatten([n \in DOMAIN lf |->
                    SelectSeq(m.faces[lf[n]],
                              LAMBDA fe : fe # cur /\ fe \in Range(ie))])
    IN  IF cands = <<>> THEN NoEdge ELSE Head(cands)

\* the search for the next edge: the first edge, over the faces of the
\* current edge and the edges of each face, that is another crossing edge
\* not yet used
NextEdge(m, cur, ie, used) ==
    LET lf == LinkFaces(m, cur)
        cands == Flatten([n \in DOMAIN lf |->
                    SelectSeq(m.faces[lf[n]],
                              LAMBDA fe : /\ fe # cur
                                          /\ fe \in Range(ie)
                                          /\ fe \notin used)])
    IN  IF cands = <<>> THEN NoEdge ELSE Head(cands)

\* mutant: the for loop starts a walk at every crossing edge, used or not
AlreadyUsedNever(edge, used) == FALSE

\* if edge in used_edges: continue
AlreadyUsed(edge, used) == edge \in used

\* mutant: a contour of 2 points is kept too
KeepTwo(c) == Len(c) >= MinContourPoints

\* a contour is kept when it has more than 2 points
Keep(c) == Len(c) > MinContourPoints

(***************************************************************************)
(* The outlines.                                                           *)
(***************************************************************************)
\* mutant: the offset is subtracted on every side
create_rectangular_outline_inset(cs, offset) ==
    LET all_points == Flatten(cs)
        xs == {all_points[n][1] : n \in DOMAIN all_points}
        ys == {all_points[n][2] : n \in DOMAIN all_points}
        zz == all_points[1][3]
    IN  IF all_points = <<>> THEN <<>>
        ELSE << <<SetMin(xs) - offset, SetMin(ys) - offset, zz>>,
                <<SetMax(xs) - offset, SetMin(ys) - offset, zz>>,
                <<SetMax(xs) - offset, SetMax(ys) - offset, zz>>,
                <<SetMin(xs) - offset, SetMax(ys) - offset, zz>> >>

\* src/Blender/Slicer.py: the bounding box of all points, outset by offset
create_rectangular_outline(cs, offset) ==
    LET all_points == Flatten(cs)
        xs == {all_points[n][1] : n \in DOMAIN all_points}
        ys == {all_points[n][2] : n \in DOMAIN all_points}
        zz == all_points[1][3]
    IN  IF all_points = <<>> THEN <<>>
        ELSE << <<SetMin(xs) - offset, SetMin(ys) - offset, zz>>,
                <<SetMax(xs) + offset, SetMin(ys) - offset, zz>>,
                <<SetMax(xs) + offset, SetMax(ys) + offset, zz>>,
                <<SetMin(xs) - offset, SetMax(ys) + offset, zz>> >>

\* max(contours, key=len): the first contour of the greatest length
Largest(cs) ==
    cs[CHOOSE n \in DOMAIN cs :
          /\ \A j \in DOMAIN cs : Len(cs[j]) <= Len(cs[n])
          /\ \A j \in 1..(n - 1) : Len(cs[j]) < Len(cs[n])]

\* Vector.normalized() * offset on the grid; the zero vector stays zero
ScaledNormal(t, offset) ==
    LET len == Length(t[1], t[2])
    IN  IF len = 0 THEN <<0, 0>>
        ELSE <<Div(-t[2] * offset, len), Div(t[1] * offset, len)>>

\* src/Slicer.py: every point of the largest contour moved by offset along
\* the normal of the chord from its predecessor to its successor
create_offset_outline(cs, offset) ==
    IF cs = <<>> THEN None
    ELSE LET lc == Largest(cs)
             n  == Len(lc)
         IN  IF n < 3 THEN None
             ELSE [j \in 1..n |->
                    LET prev == lc[IF j = 1 THEN n ELSE j - 1]
                        next == lc[(j % n) + 1]
                        nrm  == ScaledNormal(<<next[1] - prev[1], next[2] - prev[2]>>,
                                             offset)
                    IN  <<lc[j][1] + nrm[1], lc[j][2] + nrm[2], lc[j][3]>>]

\* [Vector((p.x, p.y, z_slice)) for p in outline_contour]
Adjusted(outline, zf) == [n \in DOMAIN outline |-> <<outline[n][1], outline[n][2], zf>>]

(***************************************************************************)
(* The run: execute -> slice_object -> (slice_at_z)* -> summary.           *)
(***************************************************************************)
Variants == {"Geometry", "BoundingBox"}

\* the state of slice_at_z before its first call
TracerIdle ==
    /\ z = 0 /\ intersecting_edges = <<>> /\ intersections = <<>>
    /\ contours = <<>> /\ used_edges = {} /\ k = 0 /\ contour = <<>>
    /\ start_edge = NoEdge /\ current_edge = NoEdge /\ steps = 0 /\ ret = "none"
    /\ visits = <<>>

Init ==
    /\ variant \in Variants
    /\ obj \in MeshNames
    /\ radial \in {"forward", "reverse"}
    /\ selected \in BOOLEAN
    /\ writable \in BOOLEAN
    /\ num_layers \in 1..MaxLayers
    /\ slice_direction \in BOOLEAN
    /\ add_outline \in BOOLEAN
    \* the offset is read only with add_outline set
    /\ outline_offset \in (IF add_outline THEN 1..MaxOffset ELSE {1})
    /\ pc = "execute"
    /\ result = "none"
    /\ reports = {}
    /\ z_min = 0 /\ z_max = 0 /\ layer_height = 0 /\ i = 0 /\ z_slice = 0
    /\ outline_contour = None
    /\ files = {}
    /\ handed = <<>>
    /\ sliceLog = <<>>
    /\ outlineCalls = 0
    /\ TracerIdle

\* a call of slice_at_z(bm, zf): the crossing edges and their points are
\* found, and the walk starts at the first edge
CallSliceAtZ(zf, from) ==
    LET m  == Mesh(obj)
        ie == IntersectingEdges(m, zf, num_layers)
    IN  /\ z' = zf
        /\ intersecting_edges' = ie
        /\ intersections' = Intersections(m, ie, zf, num_layers)
        /\ contours' = <<>>
        /\ used_edges' = {}
        /\ k' = 1
        /\ contour' = <<>>
        /\ start_edge' = NoEdge
        /\ current_edge' = NoEdge
        /\ steps' = 0
        /\ visits' = <<>>
        /\ ret' = from
        /\ pc' = "trace"

\* execute up to the call of slice_object
Execute ==
    /\ pc = "execute"
    /\ IF ~selected
       THEN /\ reports' = reports \cup {"NoObjectSelected"}
            /\ result' = "CANCELLED"
            /\ pc' = "done"
       ELSE /\ pc' = "slice_object"
            /\ UNCHANGED <<reports, result>>
    /\ UNCHANGED <<config, tracer, z_min, z_max, layer_height, i, z_slice,
                   outline_contour, files, handed, sliceLog, outlineCalls>>

\* slice_object returns early when the directory is not writable, and
\* execute then returns FINISHED
NotWritable ==
    /\ pc = "slice_object"
    /\ ~writable
    /\ reports' = reports \cup {"NoWritePermission"}
    /\ result' = "FINISHED"
    /\ pc' = "done"
    /\ UNCHANGED <<config, tracer, z_min, z_max, layer_height, i, z_slice,
                   outline_contour, files, handed, sliceLog, outlineCalls>>

\* src/Slicer.py: min(bm.verts, ...) raises on a mesh without vertices; the
\* try of execute reports it and returns CANCELLED
LowestVertexFails ==
    /\ pc = "slice_object"
    /\ writable
    /\ variant = "Geometry"
    /\ Mesh(obj).verts = <<>>
    /\ reports' = reports \cup {"ErrorOccurred"}
    /\ result' = "CANCELLED"
    /\ pc' = "done"
    /\ UNCHANGED <<config, tracer, z_min, z_max, layer_height, i, z_slice,
                   outline_contour, files, handed, sliceLog, outlineCalls>>

\* z_min of the run, in tenths
RunZMin(v, m) ==
    IF v = "Geometry" THEN SetMin(VertZ(m)) + Clearance ELSE BoundBoxZ(m)[1]

\* the setup of slice_object: z_min, z_max, layer_height; with add_outline
\* src/Slicer.py then slices at z_min for the outline
Setup ==
    /\ pc = "slice_object"
    /\ writable
    /\ variant = "Geometry" => Mesh(obj).verts # <<>>
    /\ LET m  == Mesh(obj)
           lo == RunZMin(variant, m)
           hi == BoundBoxZ(m)[2]
       IN  /\ z_min' = lo * num_layers
           /\ z_max' = hi * num_layers
           /\ layer_height' = hi - lo
           /\ i' = 0
           /\ IF variant = "Geometry" /\ add_outline
              THEN CallSliceAtZ(lo * num_layers, "outline")
              ELSE /\ pc' = "loop"
                   /\ UNCHANGED tracer
    /\ UNCHANGED <<config, result, reports, z_slice, outline_contour, files,
                   handed, sliceLog, outlineCalls>>

(***************************************************************************)
(* slice_at_z: the contour tracer, one action per loop iteration.  visits  *)
(* is the trail of the call: one entry per iteration of the while loop,    *)
(* with the walk (the index k of its start edge), the edge current_edge of *)
(* the iteration and the point looked up for it (None when there is none). *)
(***************************************************************************)
\* the for loop over intersecting_edges, and the return at its end
TraceNext ==
    /\ pc = "trace"
    /\ IF k > Len(intersecting_edges)
       THEN /\ pc' = IF ret = "outline" THEN "outline_ret" ELSE "sliced"
            /\ UNCHANGED <<k, contour, start_edge, current_edge>>
       ELSE IF AlreadyUsed(intersecting_edges[k], used_edges)
       THEN /\ k' = k + 1
            /\ UNCHANGED <<pc, contour, start_edge, current_edge>>
       ELSE /\ contour' = <<>>
            /\ start_edge' = intersecting_edges[k]
            /\ current_edge' = intersecting_edges[k]
            /\ pc' = "walk"
            /\ UNCHANGED k
    /\ UNCHANGED <<config, run, z, intersecting_edges, intersections, contours,
                   used_edges, steps, ret, visits>>

\* one iteration of the while loop; when the walk ends the contour is kept
\* if it has more than 2 points
WalkStep ==
    /\ pc = "walk"
    /\ steps <= Len(Mesh(obj).edges)
    /\ LET m     == Mesh(obj)
           used  == used_edges \cup {current_edge}
           point == PointOf(m, current_edge, intersections)
           cont  == IF point # None THEN Append(contour, point) ELSE contour
           next_edge == NextEdge(m, current_edge, intersecting_edges, used)
       IN  /\ used_edges' = used
           /\ steps' = steps + 1
           /\ visits' = Append(visits, [walk |-> k, edge |-> current_edge,
                                        point |-> point])
           /\ IF next_edge = NoEdge \/ next_edge = start_edge
              THEN /\ contours' = IF Keep(cont) THEN Append(contours, cont)
                                  ELSE contours
                   /\ contour' = cont
                   /\ k' = k + 1
                   /\ pc' = "trace"
                   /\ UNCHANGED current_edge
              ELSE /\ contour' = cont
                   /\ current_edge' = next_edge
                   /\ UNCHANGED <<contours, k, pc>>
    /\ UNCHANGED <<config, run, z, intersecting_edges, intersections,
                   start_edge, ret>>

(***************************************************************************)
(* slice_object after a call of slice_at_z.                                *)
(***************************************************************************)
\* the output units: slice_<n>.dxf is n, outline.dxf is OutlineFile
OutlineFile == 0

\* src/Slicer.py lines 101-117: the outline from the lowest contours, and
\* its export to outline.dxf (export_outline_to_dxf catches a writer failure)
OutlineReturn ==
    /\ pc = "outline_ret"
    /\ outlineCalls' = outlineCalls + 1
    /\ LET outline == create_offset_outline(contours, outline_offset * num_layers)
       IN  IF contours = <<>>
           THEN /\ reports' = reports \cup {"NoContoursAtLowestLevel"}
                /\ UNCHANGED <<outline_contour, files, handed>>
           ELSE IF outline = None
           THEN /\ reports' = reports \cup {"FailedToCreateOutline"}
                /\ UNCHANGED <<outline_contour, files, handed>>
           ELSE /\ outline_contour' = outline
                /\ \E ok \in BOOLEAN :
                     /\ handed' = Append(handed, [dest |-> OutlineFile,
                                                  contours |-> <<outline>>,
                                                  ok |-> ok])
                     /\ files' = IF ok THEN files \cup {OutlineFile} ELSE files
                     /\ reports' = IF ok THEN reports
                                   ELSE reports \cup {"ErrorExportingOutline"}
    /\ pc' = "loop"
    /\ UNCHANGED <<config, tracer, result, z_min, z_max, layer_height, i, z_slice,
                   sliceLog>>

\* z_slice of iteration n; src/Slicer.py has no direction branch
SliceHeight(v, dir, lo, hi, lh, n) ==
    IF v = "BoundingBox" /\ ~dir THEN hi - n * lh ELSE lo + n * lh

\* for i in range(num_layers): the next height is sliced
LoopSlice ==
    /\ pc = "loop"
    /\ i < num_layers
    /\ z_slice' = SliceHeight(variant, slice_direction, z_min, z_max, layer_height, i)
    /\ CallSliceAtZ(z_slice', "loop")
    /\ UNCHANGED <<config, result, reports, z_min, z_max, layer_height, i,
                   outline_contour, files, handed, sliceLog, outlineCalls>>

\* mutant: the shared outline is appended as it is, its z not rewritten
WithOutlineShared(cs) ==
    IF variant = "Geometry"
    THEN IF add_outline /\ outline_contour # None
         THEN Append(cs, outline_contour)
         ELSE cs
    ELSE IF add_outline
         THEN Append(cs, create_rectangular_outline(cs, outline_offset * num_layers))
         ELSE cs

\* the contour list handed to the writer for one slice
WithOutline(cs) ==
    IF variant = "Geometry"
    THEN IF add_outline /\ outline_contour # None
         THEN Append(cs, Adjusted(outline_contour, z_slice))
         ELSE cs
    ELSE IF add_outline
         THEN Append(cs, create_rectangular_outline(cs, outline_offset * num_layers))
         ELSE cs

\* export_contours_to_dxf: a failure of the writer is caught and reported
Export(cs, dest, ok) ==
    /\ handed' = Append(handed, [dest |-> dest, contours |-> cs, ok |-> ok])
    /\ files' = IF ok THEN files \cup {dest} ELSE files
    /\ reports' = IF ok THEN reports ELSE reports \cup {"ErrorExporting"}

\* mutant: every slice is exported, with or without contours
ShouldExportAlways(cs) == TRUE

\* if contours: only a slice with contours is exported
ShouldExport(cs) == cs # <<>>

\* where control goes after export_contours_to_dxf: its try/except swallows
\* a failure of the writer, so the loop goes on either way
\* mutant: a failure of the writer leaves the loop
AfterExportRaises(ok) == IF ok THEN "loop" ELSE "done"

AfterExport(ok) == "loop"

\* the rest of one loop iteration, after slice_at_z returned
SliceReturn ==
    /\ pc = "sliced"
    /\ sliceLog' = Append(sliceLog, [index |-> i, z |-> z_slice,
                                     edges |-> Len(intersecting_edges),
                                     n |-> Len(contours)])
    /\ IF ShouldExport(contours)
       THEN /\ contours' = WithOutline(contours)
            /\ \E ok \in BOOLEAN :
                 /\ Export(contours', i + 1, ok)
                 /\ pc' = AfterExport(ok)
       ELSE /\ pc' = "loop"
            /\ UNCHANGED <<contours, handed, files, reports>>
    /\ i' = i + 1
    /\ UNCHANGED <<config, result, z_min, z_max, layer_height, z_slice,
                   outline_contour, outlineCalls, z, intersecting_edges,
                   intersections, used_edges, k, contour, start_edge,
                   current_edge, steps, ret, visits>>

\* after the loop: the final summary, and execute returns FINISHED
Summary ==
    /\ pc = "loop"
    /\ i >= num_layers
    /\ reports' = reports \cup {"FinishedSlicing"}
    /\ result' = "FINISHED"
    /\ pc' = "done"
    /\ UNCHANGED <<config, tracer, z_min, z_max, layer_height, i, z_slice,
                   outline_contour, files, handed, sliceLog, outlineCalls>>

Next ==
    \/ Execute
    \/ NotWritable
    \/ LowestVertexFails
    \/ Setup
    \/ TraceNext
    \/ WalkStep
    \/ OutlineReturn
    \/ LoopSlice
    \/ SliceReturn
    \/ Summary

Spec == Init /\ [][Next]_vars

\* the operator runs to completion: a single thread with no suspension point
FairSpec == Spec /\ WF_vars(Next)

(***************************************************************************)
(* create_rectangular_outline on its own: contour lists are built point by *)
(* point from a small grid and the function is applied to them.            *)
(***************************************************************************)
Grid == {<<x, y, zz>> : x \in -1..1, y \in 0..1, zz \in 0..1}

RectInit ==
    /\ variant = "BoundingBox"
    /\ obj = "Empty"
    /\ radial = "forward"
    /\ selected = TRUE
    /\ writable = TRUE
    /\ num_layers = 1
    /\ slice_direction = TRUE
    /\ add_outline = TRUE
    /\ outline_offset \in 1..MaxOffset
    /\ pc = "rect_input"
    /\ result = "none"
    /\ reports = {}
    /\ z_min = 0 /\ z_max = 0 /\ layer_height = 0 /\ i = 0 /\ z_slice = 0
    /\ outline_contour = None
    /\ files = {}
    /\ handed = <<>>
    /\ sliceLog = <<>>
    /\ outlineCalls = 0
    /\ z = 0 /\ intersecting_edges = <<>> /\ intersections = <<>>
    /\ contours = << <<>> >> /\ used_edges = {} /\ k = 0 /\ contour = <<>>
    /\ start_edge = NoEdge /\ current_edge = NoEdge /\ steps = 0 /\ ret = "none"
    /\ visits = <<>>

RectUnchanged ==
    UNCHANGED <<config, run, z, intersecting_edges, intersections, used_edges,
                k, contour, start_edge, current_edge, steps, ret, visits>>

\* one more point on the last contour of the input
RectAddPoint ==
    /\ pc = "rect_input"
    /\ Len(Flatten(contours)) < MaxPts
    /\ \E p \in Grid :
          contours' = [contours EXCEPT ![Len(contours)] = Append(@, p)]
    /\ pc' = pc
    /\ RectUnchanged

\* the input gets one more contour
RectNewContour ==
    /\ pc = "rect_input"
    /\ contours[Len(contours)] # <<>>
    /\ Len(Flatten(contours)) < MaxPts
    /\ contours' = Append(contours, <<>>)
    /\ pc' = pc
    /\ RectUnchanged

\* outline = create_rectangular_outline(contours, offset)
RectApply ==
    /\ pc = "rect_input"
    /\ outline_contour' = create_rectangular_outline(contours, outline_offset)
    /\ pc' = "rect_done"
    /\ UNCHANGED <<config, tracer, result, reports, z_min, z_max, layer_height,
                   i, z_slice, files, handed, sliceLog, outlineCalls>>

RectNext == RectAddPoint \/ RectNewContour \/ RectApply

OutlineSpec == RectInit /\ [][RectNext]_vars

(***************************************************************************)
(* Properties.                                                             *)
(***************************************************************************)
\* slice_at_z has just returned: contours is its result for height z
Returned == pc \in {"sliced", "outline_ret"}

\* z lies strictly between the lowest and the highest vertex of the mesh
StrictlyInside(m) ==
    /\ m.verts # <<>>
    /\ SetMin(VertZ(m)) * num_layers < z
    /\ z < SetMax(VertZ(m)) * num_layers

\* z is the height of some vertex of the mesh
GrazesVertex(m) == \E v \in DOMAIN m.verts : VertexZ(m, v, num_layers) = z

\* (v1.z - z) * (v2.z - z) for edge e and the height z of the call
Product(m, e) ==
    (m.verts[m.edges[e][1]][3] * num_layers - z)
        * (m.verts[m.edges[e][2]][3] * num_layers - z)

\* the crossing edges at height z
CrossingEdges(m) == {e \in DOMAIN m.edges : Product(m, e) <= 0}

OneFullContour ==
    /\ Len(contours) = 1
    /\ Len(contours[1]) = Cardinality(CrossingEdges(Mesh(obj)))

\* C1 as stated: for a convex closed mesh and a height strictly between its
\* z_min and z_max, slice_at_z returns exactly one contour with as many
\* points as there are crossing edges.
C1_OneContourPerCrossing ==
    (Returned /\ Mesh(obj).convex /\ StrictlyInside(Mesh(obj))) => OneFullContour

\* C1 amended: the same, for heights that are not the height of any vertex.
C1_OneContourGeneric ==
    (Returned /\ Mesh(obj).convex /\ StrictlyInside(Mesh(obj))
        /\ ~GrazesVertex(Mesh(obj))) => OneFullContour

C1_Witness ==
    /\ Returned /\ obj = "Tetra" /\ StrictlyInside(Mesh(obj))
    /\ ~GrazesVertex(Mesh(obj))
    /\ Len(contours) = 1 /\ Len(contours[1]) = 4

\* C2: every contour returned by slice_at_z and every contour handed to the
\* writer (traced or outline) has more than 2 points.
C2_ContoursHaveThreePoints ==
    /\ Returned => \A n \in DOMAIN contours : Len(contours[n]) > 2
    /\ \A h \in DOMAIN handed :
          \A n \in DOMAIN handed[h].contours : Len(handed[h].contours[n]) > 2

\* a finished run in which one slice had crossing edges but only walks of
\* fewer than 3 points, all dropped, and another slice was handed to the
\* writer with an outline appended
C2_Witness ==
    /\ pc = "done" /\ add_outline
    /\ \E n \in DOMAIN sliceLog : sliceLog[n].edges > 0 /\ sliceLog[n].n = 0
    /\ \E h \in DOMAIN handed :
          /\ Len(handed[h].contours) >= 2
          /\ \A n \in DOMAIN handed[h].contours : Len(handed[h].contours[n]) > 2

\* the intersections mapping has been built for height z
Built == pc \in {"trace", "walk", "sliced", "outline_ret"}

HasPoint(m, e) ==
    m.edges[e] \in DOMAIN intersections
        \/ <<m.edges[e][2], m.edges[e][1]>> \in DOMAIN intersections

\* C3 as stated: the mapping holds a point for an edge iff the product of its
\* endpoint offsets from the plane is <= 0, edges lying in the plane included.
C3_PointIffCrossing ==
    Built => \A e \in DOMAIN Mesh(obj).edges :
                HasPoint(Mesh(obj), e) <=> Product(Mesh(obj), e) <= 0

\* both endpoints of the edge have the same height
Level(m, e) == m.verts[m.edges[e][1]][3] = m.verts[m.edges[e][2]][3]

\* C3 amended: the mapping holds a point for an edge iff the product is <= 0
\* and the edge is not parallel to the plane.
C3_PointIffCrossingNotLevel ==
    Built => \A e \in DOMAIN Mesh(obj).edges :
                HasPoint(Mesh(obj), e) <=>
                    (Product(Mesh(obj), e) <= 0 /\ ~Level(Mesh(obj), e))

\* an edge in the plane without a point, an edge touching the plane with one,
\* and an edge off the plane without one
C3_Witness ==
    /\ Built
    /\ \E e \in DOMAIN Mesh(obj).edges :
          Product(Mesh(obj), e) = 0 /\ Level(Mesh(obj), e)
             /\ ~HasPoint(Mesh(obj), e)
    /\ \E e \in DOMAIN Mesh(obj).edges :
          Product(Mesh(obj), e) = 0 /\ HasPoint(Mesh(obj), e)
    /\ \E e \in DOMAIN Mesh(obj).edges :
          Product(Mesh(obj), e) > 0 /\ ~HasPoint(Mesh(obj), e)

\* C4 as stated: slice i is taken at z_min + i * layer_height bottom-to-top
\* and at z_max - i * layer_height top-to-bottom, and a finished run has
\* sliced every index 0 .. num_layers - 1 once, in order.
C4_HeightsFollowDirection ==
    /\ \A n \in DOMAIN sliceLog :
          /\ sliceLog[n].index = n - 1
          /\ sliceLog[n].z = IF slice_direction
                             THEN z_min + (n - 1) * layer_height
                             ELSE z_max - (n - 1) * layer_height
    /\ "FinishedSlicing" \in reports => Len(sliceLog) = num_layers

\* a writer failure happened at a slice that was not the last one
FailedEarly ==
    \E h \in DOMAIN handed :
        ~handed[h].ok /\ handed[h].dest # OutlineFile /\ handed[h].dest < num_layers

\* the run ended with its summary, every index sliced, and every slice with
\* contours handed to the writer
RanToSummary ==
    /\ pc = "done" /\ result = "FINISHED" /\ "FinishedSlicing" \in reports
    /\ Len(sliceLog) = num_layers
    /\ \A n \in DOMAIN sliceLog :
          /\ sliceLog[n].index = n - 1
          /\ sliceLog[n].n > 0 => \E h \in DOMAIN handed : handed[h].dest = n

\* C5: after a writer failure on the contours of slice i the run goes on: the
\* failure is reported, every later index is sliced and (with contours)
\* handed to the writer, and the final summary is reached.
C5_WriterFailureDoesNotAbort ==
    /\ [](\A h \in DOMAIN handed :
            (~handed[h].ok /\ handed[h].dest # OutlineFile)
                => "ErrorExporting" \in reports)
    /\ (\E h \in DOMAIN handed : ~handed[h].ok /\ handed[h].dest # OutlineFile)
          ~> RanToSummary

C5_Witness ==
    /\ FailedEarly /\ RanToSummary
    /\ \E h \in DOMAIN handed : handed[h].ok /\ handed[h].dest = num_layers

\* the mesh has no vertex or no face
Degenerate(m) == m.verts = <<>> \/ m.faces = <<>>

\* C6 as stated: with a mesh without vertices or without faces the run
\* aborts before any height is sliced: slice_at_z is never called, nothing is
\* written, and the run ends CANCELLED.
C6_DegenerateMeshAborts ==
    (selected /\ writable /\ Degenerate(Mesh(obj))) =>
        /\ ~Built /\ sliceLog = <<>> /\ outlineCalls = 0
        /\ files = {} /\ handed = <<>>
        /\ result # "FINISHED"
        /\ pc = "done" => result = "CANCELLED"

\* the height z against the two cubes of Stacked
InGap       == 10 * num_layers < z /\ z < 20 * num_layers
InLowerCube == 0 < z /\ z < 10 * num_layers
InUpperCube == 20 * num_layers < z /\ z < 30 * num_layers

StackedSlices ==
    (Returned /\ obj = "Stacked") =>
        /\ InGap => contours = <<>>
        /\ (InLowerCube \/ InUpperCube) =>
              (Len(contours) = 1 /\ Len(contours[1]) = 4)

EmptySlicesWriteNothing ==
    \A n \in DOMAIN sliceLog :
        sliceLog[n].n = 0 =>
            (n \notin files /\ \A h \in DOMAIN handed : handed[h].dest # n)

\* C7: a height with no contour writes no output unit and the loop goes on
\* to the next index; on the two stacked cubes a height in the gap gives no
\* contour and a height strictly inside a cube gives one contour of 4 points.
C7_EmptySliceNotFatal ==
    /\ [](StackedSlices /\ EmptySlicesWriteNothing)
    /\ [][(pc = "sliced" /\ contours = <<>>) =>
             (pc' = "loop" /\ i' = i + 1 /\ files' = files /\ handed' = handed
                /\ result' = result)]_vars

\* a finished run over Stacked with an empty slice in the gap between two
\* slices of one 4-point contour each
C7_Witness ==
    /\ obj = "Stacked" /\ pc = "done" /\ "FinishedSlicing" \in reports
    /\ Len(sliceLog) = 3
    /\ sliceLog[1].n = 1 /\ sliceLog[2].n = 0 /\ sliceLog[3].n = 1
    /\ files = {1, 3}

\* c is outline o with nothing but the z of its points rewritten to zf
IsCopyAt(c, o, zf) ==
    /\ Len(c) = Len(o)
    /\ \A j \in DOMAIN c :
          c[j][1] = o[j][1] /\ c[j][2] = o[j][2] /\ c[j][3] = zf

Last(s) == s[Len(s)]

\* the outline contour changes only by being computed: once, before the loop,
\* from the contours of the slice at z_min
OutlineSetOnce ==
    (outline_contour' # outline_contour) =>
        /\ pc = "outline_ret" /\ z = z_min /\ sliceLog = <<>>
        /\ outlineCalls = 0 /\ outline_contour = None
        /\ \A j \in DOMAIN outline_contour' : outline_contour'[j][3] = z_min
        /\ Len(outline_contour') = Len(Largest(contours))

\* C8 as stated: in the geometry-derived variant with add_outline the outline
\* is computed once before the loop from the slice at z_min, is never
\* modified afterwards, and a copy of it with the z of the slice is appended
\* to the contour list of every slice.
C8_OutlineOnEverySlice ==
    /\ [][OutlineSetOnce]_vars
    /\ []((variant = "Geometry" /\ add_outline) =>
            /\ outlineCalls <= 1
            /\ \A n \in DOMAIN sliceLog :
                  outline_contour # None =>
                     \E h \in DOMAIN handed :
                        /\ handed[h].dest = n
                        /\ IsCopyAt(Last(handed[h].contours), outline_contour,
                                    sliceLog[n].z))

\* C8 amended: the copy is appended to the contour list of every slice that
\* has at least one traced contour, when an outline contour was created.
C8_OutlineOnEveryNonEmptySlice ==
    /\ [][OutlineSetOnce]_vars
    /\ []((variant = "Geometry" /\ add_outline) =>
            /\ outlineCalls <= 1
            /\ sliceLog # <<>> => outlineCalls = 1
            /\ \A n \in DOMAIN sliceLog :
                  (sliceLog[n].n > 0 /\ outline_contour # None) =>
                     \E h \in DOMAIN handed :
                        /\ handed[h].dest = n
                        /\ Len(handed[h].contours) = sliceLog[n].n + 1
                        /\ IsCopyAt(Last(handed[h].contours), outline_contour,
                                    sliceLog[n].z))

\* a finished run whose second slice, above z_min, carries the outline
C8_Witness ==
    /\ variant = "Geometry" /\ add_outline /\ pc = "done"
    /\ outline_contour # None
    /\ Len(sliceLog) >= 2 /\ sliceLog[2].n > 0 /\ sliceLog[2].z # z_min
    /\ \E h \in DOMAIN handed :
          handed[h].dest = 2 /\ Last(handed[h].contours)[1][3] = sliceLog[2].z

\* C9: for a non-empty point set and offset d > 0 create_rectangular_outline
\* returns 4 points of an axis-aligned rectangle at the z of the first point
\* that contains every input point with a margin of at least d on each axis.
C9_RectangleContainsPoints ==
    (pc = "rect_done" /\ Flatten(contours) # <<>>) =>
        LET pts == Flatten(contours)
            out == outline_contour
            d   == outline_offset
        IN  /\ Len(out) = 4
            /\ \A j \in 1..4 : out[j][3] = pts[1][3]
            /\ out[1][1] = out[4][1] /\ out[2][1] = out[3][1]
            /\ out[1][2] = out[2][2] /\ out[3][2] = out[4][2]
            /\ d > 0
            /\ \A n \in DOMAIN pts :
                  /\ out[1][1] + d <= pts[n][1] /\ pts[n][1] <= out[2][1] - d
                  /\ out[1][2] + d <= pts[n][2] /\ pts[n][2] <= out[3][2] - d

\* the outline of a single point, and of points spread over two contours
C9_Witness ==
    /\ pc = "rect_done" /\ Len(contours) = 2
    /\ Len(contours[1]) = 1 /\ Len(contours[2]) = 2
    /\ contours[1][1] = <<1, 1, 1>> /\ contours[2][2] = <<-1, 0, 0>>
    /\ outline_contour[1] = <<-1 - outline_offset, 0 - outline_offset, 1>>

\* slice_at_z is running
InTracer == pc \in {"trace", "walk"}

\* an iteration of the walk takes a crossing edge that was not yet used
FreshStep ==
    (pc = "walk") =>
        /\ current_edge \in CrossingEdges(Mesh(obj))
        /\ current_edge \notin used_edges
        /\ used_edges' = used_edges \cup {current_edge}
        /\ steps' = steps + 1

\* C10: slice_at_z terminates on every mesh and height: each iteration of the
\* walk uses a crossing edge not used before, so one call makes at most as
\* many iterations as there are crossing edges, and then returns.
C10_WalkTerminates ==
    /\ [](Built => steps <= Cardinality(CrossingEdges(Mesh(obj))))
    /\ [][FreshStep]_vars
    /\ InTracer ~> Returned

\* a call on the non-manifold mesh returned after one walk iteration for each
\* of its 7 crossing edges
C10_Witness ==
    /\ Returned /\ obj = "Fin"
    /\ Len(intersecting_edges) = 7 /\ steps = 7 /\ Len(contours) >= 1

\* the entries of the trail of the call for edge e
VisitsOf(e) == {n \in DOMAIN visits : visits[n].edge = e}

\* the walks of the call, each named by the index of its start edge
Walks == {visits[n].walk : n \in DOMAIN visits}

\* the points walk w collected, in the order it collected them
WalkContour(w) ==
    LET vs == SelectSeq(visits, LAMBDA v : v.walk = w /\ v.point # None)
    IN  [n \in DOMAIN vs |-> vs[n].point]

\* the walks that collected more than 2 points, in the order they were made
KeptWalks ==
    SelectSeq([n \in DOMAIN intersecting_edges |-> n],
              LAMBDA w : Len(WalkContour(w)) > 2)

\* the returned contours are the point lists of the kept walks, one each
ContoursFromWalks ==
    contours = [n \in DOMAIN KeptWalks |-> WalkContour(KeptWalks[n])]

\* the points edge e contributed to returned contours
Contributions(e) ==
    {n \in VisitsOf(e) :
        visits[n].point # None /\ visits[n].walk \in Range(KeptWalks)}

\* C11: within one call of slice_at_z every crossing edge is visited by
\* exactly one walk and exactly once, on every mesh: while the call runs no
\* edge is visited twice and only crossing edges are visited, and when it
\* returns every crossing edge has been visited once, the returned contours
\* are the point lists of the walks, and no edge gave its point to two
\* returned contours or twice to one.
C11_EachCrossingEdgeVisitedOnce ==
    /\ Built => \A e \in DOMAIN Mesh(obj).edges :
                   /\ Cardinality(VisitsOf(e)) <= 1
                   /\ VisitsOf(e) # {} => e \in CrossingEdges(Mesh(obj))
    /\ Returned =>
          /\ \A e \in CrossingEdges(Mesh(obj)) : Cardinality(VisitsOf(e)) = 1
          /\ ContoursFromWalks
          /\ \A e \in DOMAIN Mesh(obj).edges : Cardinality(Contributions(e)) <= 1

\* a call on the non-manifold mesh returned after three walks over its 7
\* crossing edges: one walk was kept as a contour and the others dropped
C11_Witness ==
    /\ Returned /\ obj = "Fin"
    /\ Cardinality(CrossingEdges(Mesh(obj))) = 7 /\ Len(visits) = 7
    /\ Cardinality(Walks) = 3 /\ Len(KeptWalks) = 1
    /\ Len(contours) = 1
    /\ \E e \in CrossingEdges(Mesh(obj)) : Cardinality(Contributions(e)) = 1
    /\ \E e \in CrossingEdges(Mesh(obj)) : Contributions(e) = {}

====
